---- MODULE Spec2Model ----
(***************************************************************************)
(* Live audio session of components/LiveConsultation.tsx as a state        *)
(* machine.  Every invocation of connectToSession that passes its entry    *)
(* guard is an "attempt" with its own AudioContext, microphone stream and  *)
(* remote connection; the refs of the component point at attempts by id    *)
(* (0 = null).  Steps are the macrotasks of the single-threaded event loop:*)
(* user clicks, timer callbacks, promise continuations and the callbacks   *)
(* of the remote connection.                                               *)
(***************************************************************************)
EXTENDS Integers, FiniteSets, Sequences, TLC

\* Attempts that may be alive at the same time; a slot is reused once its
\* attempt holds nothing and can deliver no further event.
MaxLive == 2
\* Pending reconnection timers.
MaxTimers == 1
\* The history counters saturate here.
CountCap == 4

\* The playback clock of a context is observed up to here.
MaxClock == 2
\* Durations of decoded buffers, in clock ticks.
MaxDur == 2

\* Chunks that one response stream delivers.
MaxChunks == 2
\* The longest text that is entered as a key or returned as a quote, in parts.
MaxText == 2

\* Samples of a capture buffer.
MaxLen == 2
\* A sample is a multiple of 1/SampleDen in [-1, 1].
SampleDen == 10
\* The longest response text that is parsed, in parts.
MaxRaw == 8

\* src/components/LiveConsultation.tsx:29
MAX_RETRIES == 3
\* src/components/LiveConsultation.tsx:9
AUDIO_SAMPLE_RATE == 16000

\* src/services/geminiService.ts:179
MODEL_HIERARCHY == <<"gemini-3-flash-preview", "gemini-2.0-flash-exp">>
\* src/services/geminiService.ts:209
AttemptCap == 3
\* src/services/geminiService.ts:228
BackoffBase == 1500

Ids == 1..MaxLive

VARIABLES
    isConnected,      \* useState, line 13
    isConnecting,     \* useState, line 17
    error,            \* useState, line 16: TRUE = "Network unstable. Connection dropped."
    mounted,          \* the component is mounted (unmount effect, line 284)
    manual,           \* isUserManualDisconnect.current, line 27
    retryCount,       \* retryCount.current, line 28
    audioContextRef,  \* audioContextRef.current, line 21 (attempt id, 0 = null)
    streamRef,        \* streamRef.current, line 25
    activeSessionRef, \* activeSessionRef.current, line 26
    processorRef,     \* processorRef.current / inputSourceRef.current, lines 22-23
    timers,           \* pending setTimeout callbacks of handleAutoReconnect
    awaiting,         \* attempt -> its connectToSession is suspended in getUserMedia
    ctxRunning,       \* attempt -> its AudioContext is not closed
    streamLive,       \* attempt -> its microphone tracks are not stopped
    conn,             \* attempt -> state of its remote connection
    errored,          \* attempt -> an error event was delivered, the close event is due
    pump,             \* attempt -> its ScriptProcessor is connected
    out,              \* history: what the sessionPromise.then of the pump did in the step just taken
    harCalls,         \* history: handleAutoReconnect calls since retryCount was last reset
    reopened,         \* history: the running session was re-established by a reconnection
    now,              \* audioContextRef.current.currentTime (0 while the ref is null)
    nextStartTimeRef, \* nextStartTimeRef.current, line 32
    scheduledSourcesRef, \* scheduledSourcesRef.current, line 33: the sources not yet ended or stopped
    sched,            \* history: the buffer that playAudioChunk scheduled in the step just taken
    lastMsg,          \* history: the message that onmessage handled in the step just taken
    stopAgain,        \* history: the step just taken was a stop() that found the session Closed
    gpc,              \* generateHealthResponseStream: where the generator is
    modelIdx,         \* index of modelName in MODEL_HIERARCHY, line 207
    attempt,          \* attempt, line 209
    chunks,           \* chunks received from the responseStream of the current call
    frags,            \* the fragments the generator has yielded, in order
    calls,            \* history: the generateContentStream calls and how each ended
    delays,           \* history: the delays awaited, in ms
    prevTerminal,     \* history: how the previous generator that ended without success ended
    client,           \* the client bindings and the credential: aiInstance (services/
                      \* geminiService.ts line 152), aiRef.current (LiveConsultation line
                      \* 36), the localStorage item GEMINI_API_KEY, and the key of the
                      \* client that the latest remote call uses
    quote,            \* generateHealthQuote: where the call is, its generateContent
                      \* calls and what it returned
    codec,            \* a capture buffer on its way through processAudioInput and the
                      \* receiver's decoder
    parsed,           \* a response text and what parseResponse made of it
    isMuted,          \* useState, line 14
    startMuted,       \* isMuted of the render whose connectToSession the user started
    mutedAt,          \* attempt -> isMuted as its onaudioprocess closure sees it
    frame             \* history: the frame that onaudioprocess made in the step just taken

refs == <<audioContextRef, streamRef, activeSessionRef, processorRef>>
res == <<ctxRunning, streamLive, conn, pump>>
ui == <<isConnected, isConnecting, error>>
hist == <<harCalls, reopened>>
play == <<now, nextStartTimeRef, scheduledSourcesRef>>
live == <<isConnected, isConnecting, error, mounted, manual, retryCount,
          audioContextRef, streamRef, activeSessionRef, processorRef, timers,
          awaiting, ctxRunning, streamLive, conn, errored, pump,
          out, harCalls, reopened,
          now, nextStartTimeRef, scheduledSourcesRef, sched, lastMsg,
          stopAgain>>
gen == <<gpc, modelIdx, attempt, chunks, frags, calls, delays>>
talk == <<isMuted, startMuted, mutedAt>>
\* the state outside components/LiveConsultation.tsx
elsewhere == <<gen, prevTerminal, client, quote, codec, parsed>>
\* the state outside generateHealthResponseStream and its client
outsideGen == <<live, talk, frame, prevTerminal, quote, codec, parsed>>
vars == <<isConnected, isConnecting, error, mounted, manual, retryCount,
          audioContextRef, streamRef, activeSessionRef, processorRef, timers,
          awaiting, ctxRunning, streamLive, conn, errored, pump,
          out, harCalls, reopened,
          now, nextStartTimeRef, scheduledSourcesRef, sched, lastMsg,
          stopAgain,
          gpc, modelIdx, attempt, chunks, frags, calls, delays,
          prevTerminal, client, quote, codec, parsed,
          isMuted, startMuted, mutedAt, frame>>

\* no buffer: every decoded buffer has a positive duration
NoSched == [ctx |-> 0, start |-> 0, dur |-> 0]

NoMsg == [audio |-> FALSE, interrupted |-> FALSE]

\* the step just taken sent no frame, scheduled no buffer, handled no
\* message and was no repeated stop()
NoPlay == sched' = NoSched /\ lastMsg' = NoMsg

\* no frame: onaudioprocess did not run or returned at line 227
NoFrame == [made |-> FALSE, silent |-> FALSE, level |-> 0]

Quiet == out' = "none" /\ NoPlay /\ stopAgain' = FALSE /\ frame' = NoFrame

\* no client: the refs are null before the first getAiClient
NoClient == [bound |-> FALSE, key |-> << >>]

\* no remote call yet, or no item in localStorage
NoKey == << >>

NoTerminal == [class |-> "none", text |-> ""]

\* the component and the generator as they are constructed
InitRest ==
    /\ isConnected = FALSE
    /\ isConnecting = FALSE
    /\ error = FALSE
    /\ mounted = TRUE
    /\ manual = FALSE
    /\ retryCount = 0
    /\ audioContextRef = 0
    /\ streamRef = 0
    /\ activeSessionRef = 0
    /\ processorRef = 0
    /\ timers = 0
    /\ awaiting = [a \in Ids |-> FALSE]
    /\ ctxRunning = [a \in Ids |-> FALSE]
    /\ streamLive = [a \in Ids |-> FALSE]
    /\ conn = [a \in Ids |-> "none"]
    /\ errored = [a \in Ids |-> FALSE]
    /\ pump = [a \in Ids |-> FALSE]
    /\ out = "none"
    /\ harCalls = 0
    /\ reopened = FALSE
    /\ now = 0
    /\ nextStartTimeRef = 0
    /\ scheduledSourcesRef = {}
    /\ sched = NoSched
    /\ lastMsg = NoMsg
    /\ stopAgain = FALSE
    /\ gpc = "idle"
    /\ modelIdx = 1
    /\ attempt = 0
    /\ chunks = 0
    /\ frags = << >>
    /\ calls = << >>
    /\ delays = << >>
    /\ isMuted = FALSE
    /\ startMuted = FALSE
    /\ mutedAt = [a \in Ids |-> FALSE]
    /\ frame = NoFrame

\* The component alone: the services module and the codec are left out of
\* the specifications that start here, and their variables stay "none".
Init ==
    /\ InitRest
    /\ prevTerminal = "none"
    /\ client = "none"
    /\ quote = "none"
    /\ codec = "none"
    /\ parsed = "none"

\* The services module as it is loaded: no client is bound (lines 36 and
\* 152), no key is saved, no call was made.
InitServices ==
    /\ InitRest
    /\ prevTerminal = NoTerminal
    /\ client = [aiInstance |-> NoClient, aiRef |-> NoClient,
                 storedKey |-> NoKey, usedKey |-> NoKey]
    /\ quote = [pc |-> "idle", calls |-> 0, result |-> << >>]
    /\ codec = "none"
    /\ parsed = "none"

\* A key is a string, modelled as the sequence of its parts: blanks (" "),
\* the prefix "AIza" and the characters that follow it.
\* The constant of src/services/geminiService.ts line 145.
API_KEY == <<"AIza", "0">>

\* lines 147-149
getApiKey == API_KEY

Client(k) == [bound |-> TRUE, key |-> k]

\* new GoogleGenAI({ apiKey }) in a browser throws when the key is empty
ConstructorThrows(k) == k = << >>

\* getAiClient, lines 154-159: the singleton is built once, with API_KEY
getAiClient == IF client.aiInstance.bound THEN client.aiInstance ELSE Client(API_KEY)

\* getAiClient of LiveConsultation, lines 38-44: built with getApiKey(),
\* which is not empty, when aiRef.current is null
liveGetAiClient == IF client.aiRef.bound THEN client.aiRef ELSE Client(getApiKey)

Bump(n) == IF n < CountCap THEN n + 1 ELSE n

\* The attempt of slot a holds nothing, is referenced by nothing and can
\* deliver no further event.
Free(a) ==
    /\ ~awaiting[a] /\ ~ctxRunning[a] /\ ~streamLive[a]
    /\ conn[a] = "none" /\ ~pump[a]
    /\ activeSessionRef # a

NewId == CHOOSE a \in Ids : Free(a) /\ \A b \in Ids : Free(b) => a <= b

----------------------------------------------------------------------------
\* cleanupSession, lines 76-102.  c is the connection map as the caller left it.

\* activeSessionRef.current.close(): an open connection starts closing and
\* its close event is delivered later; closing a closed one does nothing.
CleanConn(c) ==
    IF activeSessionRef # 0 /\ c[activeSessionRef] = "open"
    THEN [c EXCEPT ![activeSessionRef] = "closing"]
    ELSE c

cleanupSession(c) ==
    /\ conn' = CleanConn(c)
    /\ activeSessionRef' = 0
    /\ streamLive' = IF streamRef # 0 THEN [streamLive EXCEPT ![streamRef] = FALSE] ELSE streamLive
    /\ streamRef' = 0
    /\ pump' = IF processorRef # 0 THEN [pump EXCEPT ![processorRef] = FALSE] ELSE pump
    /\ processorRef' = 0
    /\ IF audioContextRef # 0 /\ ctxRunning[audioContextRef]
       THEN /\ ctxRunning' = [ctxRunning EXCEPT ![audioContextRef] = FALSE]
            /\ audioContextRef' = 0
            /\ now' = 0
       ELSE UNCHANGED <<ctxRunning, audioContextRef, now>>

\* audioContextRef.current.close(), line 98, seen from the sources of that
\* context: they are never rendered and never fire onended (ctx 0)
ContextClosed(S) ==
    {IF s.ctx = audioContextRef THEN [s EXCEPT !.ctx = 0] ELSE s : s \in S}

stopAllAudio_KeepMarker ==
    /\ scheduledSourcesRef' = {}
    /\ nextStartTimeRef' = nextStartTimeRef

\* stopAllAudio, lines 68-74
stopAllAudio ==
    /\ scheduledSourcesRef' = {}
    /\ nextStartTimeRef' = 0

handleDisconnect_NoAudioStop(c) ==
    /\ isConnected' = FALSE
    /\ isConnecting' = FALSE
    /\ UNCHANGED <<nextStartTimeRef, scheduledSourcesRef>>
    /\ cleanupSession(c)

\* handleDisconnect, lines 104-111
handleDisconnect(c) ==
    /\ isConnected' = FALSE
    /\ isConnecting' = FALSE
    /\ stopAllAudio
    /\ cleanupSession(c)

RetryBudgetLeft_OneLess == retryCount < MAX_RETRIES - 1

RetryBudgetLeft_Inclusive == retryCount <= MAX_RETRIES

\* line 204
RetryBudgetLeft == retryCount < MAX_RETRIES

\* handleAutoReconnect, lines 203-218
handleAutoReconnect(c) ==
    /\ harCalls' = Bump(harCalls)
    /\ IF RetryBudgetLeft
       THEN /\ timers < MaxTimers
            /\ retryCount' = retryCount + 1
            /\ cleanupSession(c)
            /\ timers' = timers + 1
            /\ scheduledSourcesRef' = ContextClosed(scheduledSourcesRef)
            /\ UNCHANGED <<ui, reopened, nextStartTimeRef>>
       ELSE /\ error' = TRUE
            /\ handleDisconnect(c)
            /\ reopened' = FALSE
            /\ UNCHANGED <<retryCount, timers>>

\* the branch of a callback that does not call handleAutoReconnect
NoReconnect(c) ==
    /\ conn' = c
    /\ UNCHANGED <<ctxRunning, streamLive, pump, refs, ui, retryCount, timers, hist, play>>

ReconnectAllowed_Always == TRUE

\* lines 182, 186 and 197: the callbacks reconnect unless the user stopped
ReconnectAllowed == ~manual

OnFailure(c) ==
    IF ReconnectAllowed THEN handleAutoReconnect(c) ELSE NoReconnect(c)

----------------------------------------------------------------------------
\* connectToSession, lines 113-145, up to the await of getUserMedia

\* line 114, evaluated on the isConnecting / isConnected of the render that
\* created the function
EntryGuard(cConnecting, cConnected, isRetry) ==
    cConnecting \/ (cConnected /\ ~isRetry)

\* lines 116-136 for the attempt n
BeginAttempt(n, isRetry) ==
    /\ IF isRetry
       THEN UNCHANGED <<retryCount, error, hist>>
       ELSE /\ retryCount' = 0
            /\ error' = FALSE
            /\ harCalls' = 0
            /\ reopened' = FALSE
    /\ isConnecting' = TRUE
    /\ manual' = FALSE
    /\ ctxRunning' = [ctxRunning EXCEPT ![n] = TRUE]
    /\ audioContextRef' = n
    /\ awaiting' = [awaiting EXCEPT ![n] = TRUE]
    /\ now' = 0
    /\ Quiet
    /\ startMuted' = (IF isRetry THEN startMuted ELSE isMuted)
    /\ mutedAt' = [mutedAt EXCEPT ![n] = startMuted']
    /\ UNCHANGED isMuted
    /\ UNCHANGED <<nextStartTimeRef, scheduledSourcesRef>>
    /\ UNCHANGED <<isConnected, streamRef, activeSessionRef, processorRef,
                   streamLive, conn, errored, pump>>

\* A start control is rendered and enabled: the main button (lines 374-382),
\* the centre icon (lines 342-346) or the retry link (lines 358-360).
StartClickable == (~isConnected /\ ~isConnecting) \/ error

\* onClick={() => connectToSession()}: the function of the current render
Start ==
    /\ mounted
    /\ StartClickable
    /\ IF EntryGuard(isConnecting, isConnected, FALSE)
       THEN /\ Quiet
            /\ UNCHANGED <<isConnected, isConnecting, error, mounted, manual,
                           retryCount, refs, timers, awaiting, res, errored,
                           hist, play, talk>>
       ELSE /\ \E a \in Ids : Free(a)
            /\ BeginAttempt(NewId, FALSE)
            /\ UNCHANGED <<mounted, timers>>
    /\ UNCHANGED elsewhere

TimerMayConnect_Always == TRUE

\* line 210
TimerMayConnect == ~manual

TimerFire_CurrentRender ==
    /\ timers > 0
    /\ timers' = timers - 1
    /\ IF TimerMayConnect /\ ~EntryGuard(isConnecting, isConnected, TRUE)
       THEN /\ \E a \in Ids : Free(a)
            /\ BeginAttempt(NewId, TRUE)
            /\ UNCHANGED mounted
       ELSE /\ Quiet
            /\ UNCHANGED <<isConnected, isConnecting, error, mounted, manual,
                           retryCount, refs, awaiting, res, errored,
                           hist, play, talk>>
    /\ UNCHANGED elsewhere

\* The setTimeout callback of lines 209-213.  Its connectToSession belongs to
\* the render of the click that started the chain, where the guard passed,
\* so it sees isConnecting = isConnected = FALSE.
TimerFire ==
    /\ timers > 0
    /\ timers' = timers - 1
    /\ IF TimerMayConnect /\ ~EntryGuard(FALSE, FALSE, TRUE)
       THEN /\ \E a \in Ids : Free(a)
            /\ BeginAttempt(NewId, TRUE)
            /\ UNCHANGED mounted
       ELSE /\ Quiet
            /\ UNCHANGED <<isConnected, isConnecting, error, mounted, manual,
                           retryCount, refs, awaiting, res, errored,
                           hist, play, talk>>
    /\ UNCHANGED elsewhere

----------------------------------------------------------------------------
\* connectToSession after the await, lines 145-189: getUserMedia resolved
\* and ai.live.connect is called. The client that line 150 binds is the
\* subject of LiveClient: the session does not depend on it.
MicResolve(a) ==
    /\ awaiting[a]
    /\ awaiting' = [awaiting EXCEPT ![a] = FALSE]
    /\ streamLive' = [streamLive EXCEPT ![a] = TRUE]
    /\ streamRef' = a
    /\ conn' = [conn EXCEPT ![a] = "opening"]
    /\ Quiet
    /\ UNCHANGED <<ui, mounted, manual, retryCount, audioContextRef,
                   activeSessionRef, processorRef, timers, ctxRunning,
                   errored, pump, hist, play>>
    /\ UNCHANGED <<elsewhere, talk>>

\* getUserMedia rejected: the catch of lines 195-200
MicReject(a) ==
    /\ awaiting[a]
    /\ awaiting' = [awaiting EXCEPT ![a] = FALSE]
    /\ OnFailure(conn)
    /\ Quiet
    /\ UNCHANGED <<mounted, manual, errored>>
    /\ UNCHANGED <<elsewhere, talk>>

OnOpenRetryCount_Kept == retryCount

\* line 168
OnOpenRetryCount == 0

\* The opened event: onopen, lines 164-171, with setupAudioProcessing, lines
\* 220-224 and 255-256, and then sessionPromise.then, lines 191-193: the
\* promise of ai.live.connect is fulfilled in the microtasks that follow the
\* opened event, before any other callback runs.
Opened(a) ==
    /\ conn[a] = "opening"
    /\ ~errored[a]
    /\ conn' = [conn EXCEPT ![a] = "open"]
    /\ isConnected' = TRUE
    /\ isConnecting' = FALSE
    /\ retryCount' = OnOpenRetryCount
    /\ harCalls' = 0
    /\ reopened' = (retryCount > 0)
    /\ Quiet
    /\ pump' = [pump EXCEPT ![a] = TRUE]
    /\ processorRef' = a
    /\ activeSessionRef' = a
    /\ UNCHANGED <<error, mounted, manual, audioContextRef, streamRef,
                   timers, awaiting, ctxRunning, streamLive,
                   errored, play>>
    /\ UNCHANGED <<elsewhere, talk>>

\* onerror, lines 184-187; the close event of the connection follows
ErrorEvent(a) ==
    /\ conn[a] \in {"opening", "open"}
    /\ ~errored[a]
    /\ errored' = [errored EXCEPT ![a] = TRUE]
    /\ OnFailure(conn)
    /\ Quiet
    /\ UNCHANGED <<mounted, manual, awaiting>>
    /\ UNCHANGED <<elsewhere, talk>>

\* onclose, lines 181-183
CloseEvent(a) ==
    /\ conn[a] \in {"opening", "open", "closing"}
    /\ errored' = [errored EXCEPT ![a] = FALSE]
    /\ OnFailure([conn EXCEPT ![a] = "none"])
    /\ Quiet
    /\ UNCHANGED <<mounted, manual, awaiting>>
    /\ UNCHANGED <<elsewhere, talk>>

----------------------------------------------------------------------------
\* The input level of a captured buffer that carries sound, in the model's unit.
Loud == 1

\* lines 230-239: the frame onaudioprocess makes of a buffer that carries
\* sound when its closure sees isMuted = m
Frame(m) == [made |-> TRUE, silent |-> m, level |-> IF m THEN 0 ELSE Loud]

SendAllowed_Always == TRUE

\* line 244
SendAllowed == ~manual /\ activeSessionRef # 0

\* onaudioprocess, lines 226-254: a capture buffer of the processor of a.
\* sessionPromise is fulfilled when the processor exists and a suspended
\* context delivers no buffer, so the continuation of lines 243-253 runs in
\* the microtasks of the same callback.
Capture(a) ==
    /\ pump[a]
    /\ ctxRunning[a]
    /\ out' = IF manual THEN "none"
              ELSE IF SendAllowed THEN "sent" ELSE "dropped"
    /\ frame' = IF manual THEN NoFrame ELSE Frame(mutedAt[a])
    /\ UNCHANGED <<ui, mounted, manual, retryCount, refs, timers, awaiting,
                   res, errored, hist, play>>
    /\ NoPlay
    /\ stopAgain' = FALSE
    /\ UNCHANGED <<elsewhere, talk>>

SendFails_Reconnect(a) ==
    /\ pump[a]
    /\ ctxRunning[a]
    /\ SendAllowed
    /\ out' = "failed"
    /\ frame' = Frame(mutedAt[a])
    /\ OnFailure(conn)
    /\ UNCHANGED <<mounted, manual, awaiting, errored>>
    /\ NoPlay
    /\ stopAgain' = FALSE
    /\ UNCHANGED <<elsewhere, talk>>

\* the same callback when sendRealtimeInput rejects: the catch of line 252
SendFails(a) ==
    /\ pump[a]
    /\ ctxRunning[a]
    /\ SendAllowed
    /\ out' = "failed"
    /\ frame' = Frame(mutedAt[a])
    /\ UNCHANGED <<ui, mounted, manual, retryCount, refs, timers, awaiting,
                   res, errored, hist, play>>
    /\ NoPlay
    /\ stopAgain' = FALSE
    /\ UNCHANGED <<elsewhere, talk>>

\* onClick={() => setIsMuted(!isMuted)}, lines 385-387; the button is
\* rendered while isConnected (line 383)
ToggleMute ==
    /\ mounted
    /\ isConnected
    /\ isMuted' = ~isMuted
    /\ UNCHANGED <<startMuted, mutedAt>>
    /\ Quiet
    /\ UNCHANGED <<ui, mounted, manual, retryCount, refs, timers, awaiting,
                   res, errored, hist, play>>
    /\ UNCHANGED elsewhere

----------------------------------------------------------------------------
\* The session is Closed: the manual-disconnect flag is set, the session is
\* neither connected nor connecting, the playback queue is empty and its
\* marker reset, and no session handle, capture stream, processor or audio
\* context is referenced.
Closed ==
    /\ manual /\ ~isConnected /\ ~isConnecting
    /\ scheduledSourcesRef = {} /\ nextStartTimeRef = 0
    /\ activeSessionRef = 0 /\ streamRef = 0
    /\ processorRef = 0 /\ audioContextRef = 0

StopBody ==
    /\ manual' = TRUE
    /\ handleDisconnect(conn)
    /\ reopened' = FALSE
    /\ out' = "none"
    /\ NoPlay
    /\ frame' = NoFrame
    /\ stopAgain' = Closed
    /\ UNCHANGED <<error, retryCount, timers, awaiting, errored, harCalls>>
    /\ UNCHANGED <<elsewhere, talk>>

\* handleManualDisconnect, lines 279-282, behind the End button (lines 396-402)
Stop ==
    /\ mounted
    /\ isConnected
    /\ StopBody
    /\ UNCHANGED mounted

\* the unmount cleanup of lines 284-289
Unmount ==
    /\ mounted
    /\ mounted' = FALSE
    /\ StopBody

----------------------------------------------------------------------------
\* Inbound frames and the playback queue

Max(x, y) == IF x >= y THEN x ELSE y

Durations == 1..MaxDur

\* decodeAudioData(decodeBase64(data), ctx, 24000, 1) of utils/audioUtils: a
\* stateless conversion that yields a buffer of positive duration or fails
\* with a decode error (0); it does not suspend across tasks
decodeAudioData(kind, d) == IF kind = "ok" THEN d ELSE 0

\* lines 260-262
CanPlay == audioContextRef # 0 /\ ctxRunning[audioContextRef]

StartTime_Marker == nextStartTimeRef

\* line 266
StartTime == Max(now, nextStartTimeRef)

\* the source created by lines 267-272 for a buffer of duration d
Source(d) == [ctx |-> audioContextRef, start |-> StartTime, dur |-> d]

\* playAudioChunk, lines 259-277: the buffer it schedules, NoSched when it
\* returns early or the decoding throws (catch of lines 274-276)
playAudioChunk(kind, d) ==
    IF CanPlay /\ decodeAudioData(kind, d) > 0
    THEN Source(decodeAudioData(kind, d))
    ELSE NoSched

\* the interruption handled before the audio of the same message
onmessage_InterruptFirst(kind, d, interrupted) ==
    /\ sched' = IF kind = "none" THEN NoSched
                ELSE IF interrupted /\ CanPlay /\ decodeAudioData(kind, d) > 0
                THEN [ctx |-> audioContextRef, start |-> now, dur |-> d]
                ELSE playAudioChunk(kind, d)
    /\ IF sched'.dur > 0
       THEN /\ scheduledSourcesRef' =
                  (IF interrupted THEN {} ELSE scheduledSourcesRef) \cup {sched'}
            /\ nextStartTimeRef' = sched'.start + sched'.dur
       ELSE IF interrupted THEN stopAllAudio
       ELSE UNCHANGED <<nextStartTimeRef, scheduledSourcesRef>>

\* a payload that fails to decode flushes the playback queue
onmessage_BadFlushes(kind, d, interrupted) ==
    /\ sched' = IF kind = "none" THEN NoSched ELSE playAudioChunk(kind, d)
    /\ IF interrupted \/ (kind = "bad" /\ CanPlay)
       THEN stopAllAudio
       ELSE IF sched'.dur > 0
       THEN /\ scheduledSourcesRef' = scheduledSourcesRef \cup {sched'}
            /\ nextStartTimeRef' = sched'.start + sched'.dur
       ELSE UNCHANGED <<nextStartTimeRef, scheduledSourcesRef>>

\* the marker is put behind the current time, not behind the start time
onmessage_MarkerFromNow(kind, d, interrupted) ==
    /\ sched' = IF kind = "none" THEN NoSched ELSE playAudioChunk(kind, d)
    /\ IF interrupted
       THEN stopAllAudio
       ELSE IF sched'.dur > 0
       THEN /\ scheduledSourcesRef' = scheduledSourcesRef \cup {sched'}
            /\ nextStartTimeRef' = now + sched'.dur
       ELSE UNCHANGED <<nextStartTimeRef, scheduledSourcesRef>>

\* the body of onmessage, lines 172-180: the audio of the message is played
\* first, then the interruption it carries is handled
onmessage(kind, d, interrupted) ==
    /\ sched' = IF kind = "none" THEN NoSched ELSE playAudioChunk(kind, d)
    /\ IF interrupted
       THEN stopAllAudio
       ELSE IF sched'.dur > 0
       THEN /\ scheduledSourcesRef' = scheduledSourcesRef \cup {sched'}
            /\ nextStartTimeRef' = sched'.start + sched'.dur
       ELSE UNCHANGED <<nextStartTimeRef, scheduledSourcesRef>>

\* A message of the connection of a: kind says whether it carries audio
\* ("none"), audio that decodes to duration d ("ok") or malformed audio
\* ("bad"); interrupted is serverContent.interrupted.
Message(a, kind, d, interrupted) ==
    /\ conn[a] = "open"
    /\ ~errored[a]
    /\ (kind = "ok" /\ CanPlay) => StartTime + d <= MaxClock + MaxDur
    /\ onmessage(kind, d, interrupted)
    /\ lastMsg' = [audio |-> kind # "none", interrupted |-> interrupted]
    /\ out' = "none"
    /\ frame' = NoFrame
    /\ stopAgain' = FALSE
    /\ UNCHANGED <<ui, mounted, manual, retryCount, refs, timers, awaiting,
                   res, errored, hist, now>>
    /\ UNCHANGED <<elsewhere, talk>>

\* the clock of the current context advances
Tick ==
    /\ CanPlay
    /\ now < MaxClock
    /\ now' = now + 1
    /\ Quiet
    /\ UNCHANGED <<ui, mounted, manual, retryCount, refs, timers, awaiting,
                   res, errored, hist, nextStartTimeRef, scheduledSourcesRef>>
    /\ UNCHANGED <<elsewhere, talk>>

\* source.onended, line 273: the buffer of s has been played to its end.
\* The clock of a context other than the current one is not observed.
Ended(s) ==
    /\ s \in scheduledSourcesRef
    /\ s.ctx # 0
    /\ s.ctx = audioContextRef => now >= s.start + s.dur
    /\ scheduledSourcesRef' = scheduledSourcesRef \ {s}
    /\ Quiet
    /\ UNCHANGED <<ui, mounted, manual, retryCount, refs, timers, awaiting,
                   res, errored, hist, now, nextStartTimeRef>>
    /\ UNCHANGED <<elsewhere, talk>>

\* The session lifecycle: user controls, timers and connection events.
Next ==
    \/ Start
    \/ TimerFire
    \/ \E a \in Ids : MicResolve(a)
    \/ \E a \in Ids : MicReject(a)
    \/ \E a \in Ids : Opened(a)
    \/ \E a \in Ids : ErrorEvent(a)
    \/ \E a \in Ids : CloseEvent(a)
    \/ Stop
    \/ Unmount

Spec == Init /\ [][Next]_vars

\* The lifecycle together with the capture pump.
NextPump ==
    \/ Start
    \/ TimerFire
    \/ \E a \in Ids : MicResolve(a)
    \/ \E a \in Ids : MicReject(a)
    \/ \E a \in Ids : Opened(a)
    \/ \E a \in Ids : ErrorEvent(a)
    \/ \E a \in Ids : CloseEvent(a)
    \/ \E a \in Ids : Capture(a)
    \/ Stop
    \/ Unmount

SpecPump == Init /\ [][NextPump]_vars

\* the close event of a connection that the session closed itself
CloseAck(a) == conn[a] = "closing" /\ CloseEvent(a)

\* The playback queue over the sessions that the user starts and stops;
\* connections are not lost.
NextPlay ==
    \/ Start
    \/ \E a \in Ids : MicResolve(a)
    \/ \E a \in Ids : Opened(a)
    \/ \E a \in Ids : CloseAck(a)
    \/ \E a \in Ids, kind \in {"none", "ok", "bad"}, d \in Durations,
          interrupted \in BOOLEAN : Message(a, kind, d, interrupted)
    \/ Tick
    \/ \E s \in scheduledSourcesRef : Ended(s)
    \/ Stop
    \/ Unmount

SpecPlay == Init /\ [][NextPlay]_vars

\* The playback queue over sessions whose connections may be lost and
\* re-established.
NextReplay ==
    \/ Start
    \/ TimerFire
    \/ \E a \in Ids : MicResolve(a)
    \/ \E a \in Ids : MicReject(a)
    \/ \E a \in Ids : Opened(a)
    \/ \E a \in Ids : ErrorEvent(a)
    \/ \E a \in Ids : CloseEvent(a)
    \/ \E a \in Ids, kind \in {"none", "ok", "bad"}, d \in Durations,
          interrupted \in BOOLEAN : Message(a, kind, d, interrupted)
    \/ Tick
    \/ \E s \in scheduledSourcesRef : Ended(s)
    \/ Stop
    \/ Unmount

SpecReplay == Init /\ [][NextReplay]_vars

\* The capture pump and the mute button over the sessions that the user
\* starts and stops; connections are not lost.
NextTalk ==
    \/ Start
    \/ \E a \in Ids : MicResolve(a)
    \/ \E a \in Ids : Opened(a)
    \/ \E a \in Ids : CloseAck(a)
    \/ \E a \in Ids : Capture(a)
    \/ \E a \in Ids : SendFails(a)
    \/ ToggleMute
    \/ Stop
    \/ Unmount

SpecTalk == Init /\ [][NextTalk]_vars

----------------------------------------------------------------------------
\* Steps and states the properties speak about.

\* The session is Failed: the terminal error is reported and the session is
\* neither connecting nor connected.
Failed == error /\ ~isConnecting /\ ~isConnected

\* A step that makes a connection attempt: it acquires the microphone
\* (getUserMedia is called) or calls ai.live.connect.
NewAttempt ==
    \E a \in Ids : \/ awaiting'[a] /\ ~awaiting[a]
                   \/ conn[a] = "none" /\ conn'[a] = "opening"

\* No invocation of connectToSession is suspended in getUserMedia.
NoneSuspended == \A a \in Ids : ~awaiting[a]

\* A step in which the user starts the session: no timer is consumed and
\* lines 116-119 reset the retry counter and the error.
UserStart == timers' = timers /\ retryCount' = 0 /\ ~error' /\ mounted

\* A step that delivers an error event or a close event of a connection.
EventStep ==
    \E a \in Ids : \/ errored'[a] /\ ~errored[a]
                   \/ conn[a] # "none" /\ conn'[a] = "none"

\* A step that delivers an opened event.
OpenStep == \E a \in Ids : conn[a] = "opening" /\ conn'[a] = "open"

\* A step in which handleAutoReconnect runs.
ReportStep == harCalls' = harCalls + 1

\* The connection of a is open or being opened and has not failed.
LiveConn(a) == conn[a] \in {"opening", "open"} /\ ~errored[a]

\* Nothing is in flight: no suspended invocation, no pending timer, no
\* connection that still owes an opened or a close event to a local call.
Quiescent ==
    /\ timers = 0
    /\ \A a \in Ids : ~awaiting[a] /\ conn[a] \notin {"opening", "closing"} /\ ~errored[a]

----------------------------------------------------------------------------
\* C1 as stated: with no opened event since the start, the report of the
\* third consecutive connection failure (MAX_RETRIES = 3) puts the session in
\* Failed.
C1_FailedOnThirdReport ==
    [][(ReportStep /\ harCalls = MAX_RETRIES - 1) => Failed']_vars

\* C1 amended: the first MAX_RETRIES failure reports after a start each
\* consume one retry, schedule a reconnection and leave the error unset; the
\* report after them (the fourth) puts the session in Failed and schedules
\* nothing.  With one report per failed attempt that is the failure of the
\* initial attempt and of its three retries.
C1_FailedOnFourthReport ==
    [][ReportStep =>
          IF harCalls < MAX_RETRIES
          THEN /\ retryCount' = harCalls + 1
               /\ timers' = timers + 1
               /\ error' = error
          ELSE /\ Failed'
               /\ retryCount' = MAX_RETRIES
               /\ timers' = timers]_vars

C1_Witness ==
    /\ Failed
    /\ ~manual
    /\ harCalls = MAX_RETRIES + 1
    /\ retryCount = MAX_RETRIES
    /\ timers = 0

\* C2 as stated: once the session is Failed, no connection attempt is made
\* until the user starts again (error is cleared by a user start only).
C2_NoAttemptAfterFailed ==
    [][(error /\ error') => ~NewAttempt]_vars

C4_SingleConnectionAndStream ==
    /\ Cardinality({a \in Ids : LiveConn(a)}) <= 1
    /\ Cardinality({a \in Ids : streamLive[a]}) <= 1

\* C5 as stated: after stop(), once everything in flight has run, no
\* microphone stream, audio context or remote connection is held.
C5_StopReleasesEverything ==
    (manual /\ Quiescent) =>
        \A a \in Ids : ~streamLive[a] /\ ~ctxRunning[a] /\ ~LiveConn(a)

\* C6 as stated: between stop() and the next start() the session is never
\* Active: no remote connect is issued, the connected state is not set and
\* no capture pump is started.
C6_NeverActiveAfterStop ==
    [][(manual /\ manual') =>
          /\ ~isConnected'
          /\ \A a \in Ids : /\ ~(conn[a] = "none" /\ conn'[a] = "opening")
                             /\ ~(pump'[a] /\ ~pump[a])]_vars

\* C7: a frame is transmitted only while the manual-disconnect flag is false
\* and a session handle exists.
C7_SendOnlyWhenLive ==
    [][(out' = "sent") => (~manual /\ activeSessionRef # 0)]_vars

C7_Witness == out = "sent" /\ ~manual /\ activeSessionRef # 0

\* C8: a close or error event delivered while the manual-disconnect flag is
\* false schedules a reconnection (budget left) or puts the session in
\* Failed; one delivered while the flag is true does neither.
C8_EventsTriggerReconnect ==
    [][EventStep =>
          IF ~manual
          THEN \/ /\ retryCount < MAX_RETRIES
                  /\ retryCount' = retryCount + 1
                  /\ timers' = timers + 1
                  /\ error' = error
               \/ /\ retryCount >= MAX_RETRIES
                  /\ Failed'
                  /\ timers' = timers
          ELSE /\ timers' = timers
               /\ retryCount' = retryCount
               /\ error' = error
               /\ isConnected' = isConnected
               /\ isConnecting' = isConnecting]_vars

\* an error event was delivered with the flag false and a timer is pending
C8_Witness ==
    /\ ~manual
    /\ timers > 0
    /\ retryCount > 0
    /\ \E a \in Ids : errored[a]

\* C9: 0 <= retryCount <= MAX_RETRIES in every reachable state.
C9_RetryCountBounded == retryCount \in 0..MAX_RETRIES

\* handleAutoReconnect ran with the budget exhausted
C9_Witness == retryCount = MAX_RETRIES /\ harCalls = MAX_RETRIES + 1

\* C10: every opened event resets retryCount to 0, and each of the first
\* MAX_RETRIES failure reports after it schedules a reconnection without
\* reaching Failed.
C10_OpenResetsBudget ==
    [][/\ OpenStep => retryCount' = 0
       /\ (ReportStep /\ harCalls < MAX_RETRIES) =>
              (timers' = timers + 1 /\ error' = error)]_vars

\* the session re-opened after failures and has since been granted three
\* reconnections
C10_Witness ==
    /\ reopened
    /\ harCalls = MAX_RETRIES
    /\ retryCount = MAX_RETRIES
    /\ ~error

----------------------------------------------------------------------------
\* generateHealthResponseStream, src/services/geminiService.ts lines 191-244

\* error.message, as the set of the status codes that occur in it
Messages == SUBSET {"429", "503", "403"}

TechnicalError == "I encountered a technical error. Please refresh and try again."

NetworkIssue == "I encountered a network issue. Please check your internet connection and try again."

\* the signal that handleSendMessage tests for, src/unnamed/part_000 line 122
AccessDenied == "ACCESS_DENIED_ERROR"

TextFrag(n) == [kind |-> "text", text |-> "chunk", call |-> n]

ErrorFrag(t) == [kind |-> "error", text |-> t, call |-> 0]

\* the failure classes of the error taxonomy: rate-limited or overloaded
\* ("busy"), credential rejected ("denied"), anything else ("other")
Class(msg) ==
    IF "429" \in msg \/ "503" \in msg THEN "busy"
    ELSE IF "403" \in msg THEN "denied"
    ELSE "other"

Retryable_Always(msg) == TRUE

\* line 226
Retryable(msg) == "429" \in msg \/ "503" \in msg

Backoff_Flat(a) == BackoffBase

\* line 228
Backoff(a) == BackoffBase * (a + 1)

\* the log with its last call ended as e
EndCall(e) == [calls EXCEPT ![Len(calls)].end = e]

\* lines 210-215: generateContentStream is called for candidate m, attempt a
BeginCall(m, a, log) ==
    /\ gpc' = "open"
    /\ modelIdx' = m
    /\ attempt' = a
    /\ chunks' = 0
    /\ calls' = Append(log, [model |-> m, attempt |-> a, end |-> "pending"])
    /\ UNCHANGED frags

NextCandidate_GiveUp(log) ==
    /\ gpc' = "done"
    /\ frags' = Append(frags, ErrorFrag(NetworkIssue))
    /\ calls' = log
    /\ UNCHANGED <<modelIdx, attempt, chunks>>

NextCandidate_YieldEach(log) ==
    /\ frags' = Append(frags, ErrorFrag(NetworkIssue))
    /\ IF modelIdx < Len(MODEL_HIERARCHY)
       THEN /\ gpc' = "open"
            /\ modelIdx' = modelIdx + 1
            /\ attempt' = 0
            /\ chunks' = 0
            /\ calls' = Append(log, [model |-> modelIdx + 1, attempt |-> 0, end |-> "pending"])
       ELSE /\ gpc' = "done"
            /\ calls' = log
            /\ UNCHANGED <<modelIdx, attempt, chunks>>

\* the retry loop of a candidate is left without a return: the next
\* candidate of line 207, or line 238 after the last one
NextCandidate(log) ==
    IF modelIdx < Len(MODEL_HIERARCHY)
    THEN BeginCall(modelIdx + 1, 0, log)
    ELSE /\ gpc' = "done"
         /\ frags' = Append(frags, ErrorFrag(NetworkIssue))
         /\ calls' = log
         /\ UNCHANGED <<modelIdx, attempt, chunks>>

\* the generator is called and iterated, lines 195-211; an exception of
\* line 196 is caught at line 240
Invoke ==
    /\ gpc = "idle"
    /\ IF ~client.aiInstance.bound /\ ConstructorThrows(API_KEY)
       THEN /\ gpc' = "done"
            /\ frags' = Append(frags, ErrorFrag(TechnicalError))
            /\ UNCHANGED <<modelIdx, attempt, chunks, calls, client>>
       ELSE /\ BeginCall(1, 0, calls)
            /\ client' = [client EXCEPT !.aiInstance = getAiClient,
                                        !.usedKey = getAiClient.key]
    /\ UNCHANGED <<delays, outsideGen>>

\* await generateContentStream resolves, line 211
OpenOk ==
    /\ gpc = "open"
    /\ gpc' = "stream"
    /\ UNCHANGED <<modelIdx, attempt, chunks, frags, calls, delays, outsideGen, client>>

\* lines 217-219: a chunk arrives; it is yielded when its text is not empty
Chunk(hasText) ==
    /\ gpc = "stream"
    /\ chunks < MaxChunks
    /\ chunks' = chunks + 1
    /\ frags' = IF hasText THEN Append(frags, TextFrag(Len(calls))) ELSE frags
    /\ UNCHANGED <<gpc, modelIdx, attempt, calls, delays, outsideGen, client>>

StreamEnd_Continue ==
    /\ gpc = "stream"
    /\ NextCandidate(EndCall("ok"))
    /\ UNCHANGED <<delays, outsideGen, client>>

\* the stream ends cleanly: return, line 220
StreamEnd ==
    /\ gpc = "stream"
    /\ gpc' = "done"
    /\ calls' = EndCall("ok")
    /\ UNCHANGED <<modelIdx, attempt, chunks, frags, delays, outsideGen, client>>

Fail_Rethrow(msg) ==
    /\ gpc \in {"open", "stream"}
    /\ IF Retryable(msg)
       THEN /\ gpc' = "delay"
            /\ delays' = Append(delays, Backoff(attempt))
            /\ calls' = EndCall(Class(msg))
            /\ UNCHANGED <<modelIdx, attempt, chunks, frags>>
       ELSE /\ gpc' = "raised"
            /\ calls' = EndCall(Class(msg))
            /\ UNCHANGED <<modelIdx, attempt, chunks, frags, delays>>
    /\ UNCHANGED <<outsideGen, client>>

\* the call or its stream throws an error with message msg: catch, lines 222-234
Fail(msg) ==
    /\ gpc \in {"open", "stream"}
    /\ IF Retryable(msg)
       THEN /\ gpc' = "delay"
            /\ delays' = Append(delays, Backoff(attempt))
            /\ calls' = EndCall(Class(msg))
            /\ UNCHANGED <<modelIdx, attempt, chunks, frags>>
       ELSE /\ NextCandidate(EndCall(Class(msg)))
            /\ UNCHANGED delays
    /\ UNCHANGED <<outsideGen, client>>

MoreAttempts_Always == TRUE

MoreAttempts_Inclusive == attempt + 1 <= AttemptCap

\* attempt++ and the loop test of line 209
MoreAttempts == attempt + 1 < AttemptCap

DelayDone_Break ==
    /\ gpc = "delay"
    /\ NextCandidate(calls)
    /\ UNCHANGED <<delays, outsideGen, client>>

\* the delay of line 228 is over: continue, line 229, and the loop test of line 209
DelayDone ==
    /\ gpc = "delay"
    /\ IF MoreAttempts
       THEN BeginCall(modelIdx, attempt + 1, calls)
       ELSE NextCandidate(calls)
    /\ UNCHANGED <<delays, outsideGen, client>>

NextGen ==
    \/ Invoke
    \/ OpenOk
    \/ \E hasText \in BOOLEAN : Chunk(hasText)
    \/ StreamEnd
    \/ \E msg \in Messages : Fail(msg)
    \/ DelayDone

SpecGen == InitServices /\ [][NextGen]_vars

\* The remote service answers every call and ends or fails every stream,
\* and the timer of delay fires.
Respond ==
    \/ OpenOk
    \/ \E hasText \in BOOLEAN : Chunk(hasText)
    \/ StreamEnd
    \/ \E msg \in Messages : Fail(msg)

SpecGenLive == SpecGen /\ WF_vars(Respond) /\ WF_vars(DelayDone)

ErrorFrags == {i \in 1..Len(frags) : frags[i].kind = "error"}

\* for await ... of handleSendMessage (src/unnamed/part_000 lines 120-134)
\* is over; the next message creates a new generator
Return ==
    /\ gpc = "done"
    /\ gpc' = "idle"
    /\ modelIdx' = 1
    /\ attempt' = 0
    /\ chunks' = 0
    /\ frags' = << >>
    /\ calls' = << >>
    /\ delays' = << >>
    /\ prevTerminal' =
           IF ErrorFrags # {} /\ Len(calls) > 0
           THEN [class |-> calls[Len(calls)].end, text |-> frags[Len(frags)].text]
           ELSE prevTerminal
    /\ UNCHANGED <<live, talk, frame, quote, codec, parsed, client>>

NextGenRepeat ==
    \/ NextGen
    \/ Return

\* one generator after the other, as the chat creates them
SpecGenRepeat == InitServices /\ [][NextGenRepeat]_vars

\* A step in which stop() runs: handleManualDisconnect or the unmount cleanup.
StopStep == manual' /\ ((mounted /\ ~mounted') \/ (isConnected /\ ~isConnected'))

\* C11: stop() leaves the session Closed, and a stop() that finds the session
\* Closed (the second of two in succession) changes nothing in it.
C11_StopIdempotent ==
    [][StopStep =>
          /\ Closed'
          /\ Closed => UNCHANGED <<ui, manual, retryCount, refs, timers,
                                   awaiting, res, errored, play>>]_vars

\* the unmount cleanup has run stop() on a session that stop() had closed
C11_Witness == stopAgain /\ Closed /\ ~mounted /\ \E a \in Ids : conn[a] = "closing"

\* A step in which playAudioChunk schedules a buffer.
ScheduleStep == sched'.dur > 0

\* A step in which onmessage handles an interruption.
InterruptStep == lastMsg'.interrupted

\* C12 as stated: the start time computed for a buffer equals the end time of
\* the buffer before it (the marker) when there is one since the last
\* interruption or stop, and the current time of the clock otherwise.
C12_AlwaysBackToBack ==
    [][ScheduleStep =>
          sched'.start = IF nextStartTimeRef > 0 THEN nextStartTimeRef ELSE now]_vars

\* C12 amended: the start time is the later of the current time of the clock
\* and the end of the buffer before it: the end of that buffer when it has
\* not passed yet (no gap), the current time when it has or when there is no
\* buffer before it, and never before the end of a buffer still scheduled on
\* the same clock (no overlap).
C12_BackToBackOrNow ==
    [][ScheduleStep =>
          /\ sched'.start = Max(now, nextStartTimeRef)
          /\ now <= nextStartTimeRef => sched'.start = nextStartTimeRef
          /\ nextStartTimeRef = 0 => sched'.start = now
          /\ \A s \in scheduledSourcesRef :
                 s.ctx = sched'.ctx => s.start + s.dur <= sched'.start]_vars

\* a buffer was scheduled at the end of a buffer that is still scheduled
C12_Witness ==
    /\ sched.dur > 0
    /\ sched \in scheduledSourcesRef
    /\ \E s \in scheduledSourcesRef :
          s # sched /\ s.ctx = sched.ctx /\ s.start + s.dur = sched.start

\* C13: an interruption leaves no buffer scheduled and resets the marker,
\* the marker leaves 0 only when a buffer is scheduled, and a buffer
\* scheduled while the marker is 0 starts at the current time of the clock.
C13_InterruptionResetsQueue ==
    [][/\ InterruptStep => (scheduledSourcesRef' = {} /\ nextStartTimeRef' = 0)
       /\ (nextStartTimeRef = 0 /\ nextStartTimeRef' # 0) => ScheduleStep
       /\ (nextStartTimeRef = 0 /\ ScheduleStep) => sched'.start = now]_vars

\* an interruption cancelled a buffer that was queued behind another one
C13_Witness ==
    /\ lastMsg.interrupted
    /\ sched.dur > 0 /\ sched.start > now
    /\ scheduledSourcesRef = {} /\ nextStartTimeRef = 0

FailStep ==
    /\ gpc \in {"open", "stream"}
    /\ calls'[Len(calls)].end \in {"busy", "denied", "other"}

\* A step in which a delay ends.
DelayStep == gpc = "delay" /\ gpc' # "delay"

\* The step begins the call of candidate m, attempt a.
Begins(m, a) ==
    /\ gpc' = "open"
    /\ Len(calls') = Len(calls) + 1
    /\ calls'[Len(calls')].model = m /\ calls'[Len(calls')].attempt = a

\* The step ends generate with the one terminal error fragment.
EndsInError ==
    /\ gpc' = "done"
    /\ Len(frags') = Len(frags) + 1
    /\ frags'[Len(frags')].kind = "error"
    /\ calls' = [calls EXCEPT ![Len(calls)].end = calls'[Len(calls)].end]

\* C15: as long as every call so far failed with a retryable error, the
\* calls go through the hierarchy in order with exactly AttemptCap = 3
\* attempts per candidate: call p is attempt (p-1) mod 3 of candidate
\* (p-1) div 3, so the first call of a candidate comes after exactly three
\* calls of each candidate before it.
C15_ThreeAttemptsBeforeNext ==
    \A p \in 1..Len(calls) :
        (\A i \in 1..(p - 1) : calls[i].end = "busy") =>
            /\ calls[p].model = ((p - 1) \div AttemptCap) + 1
            /\ calls[p].attempt = (p - 1) % AttemptCap

\* the first candidate failed three times and the second succeeded
C15_Witness ==
    /\ Len(calls) = AttemptCap + 1
    /\ \A i \in 1..AttemptCap : calls[i].end = "busy" /\ calls[i].model = 1
    /\ calls[AttemptCap + 1].model = 2 /\ calls[AttemptCap + 1].end = "ok"

\* C16 as stated: a call that fails with a credential-rejected error ends
\* generate at once with the sentinel as the last fragment.
C16_DeniedShortCircuits ==
    [][(FailStep /\ calls'[Len(calls)].end = "denied") =>
          /\ gpc' = "done"
          /\ Len(calls') = Len(calls)
          /\ Len(frags') = Len(frags) + 1
          /\ frags'[Len(frags')].text = AccessDenied]_vars

\* C17: when generate has ended and no call completed cleanly, exactly one
\* error fragment was yielded, it is not empty and it is the last fragment;
\* before that no error fragment is yielded.
C17_OneTerminalError ==
    /\ (gpc = "done" /\ \A i \in 1..Len(calls) : calls[i].end # "ok") =>
          /\ ErrorFrags = {Len(frags)}
          /\ frags[Len(frags)].text # ""
    /\ gpc # "done" => ErrorFrags = {}

\* every candidate was exhausted after a failed stream had yielded text
C17_Witness ==
    /\ gpc = "done"
    /\ Len(calls) >= Len(MODEL_HIERARCHY)
    /\ \A i \in 1..Len(calls) : calls[i].end # "ok"
    /\ Len(frags) > 1
    /\ frags[Len(frags)] = ErrorFrag(NetworkIssue)

\* C18: a call that completed cleanly is the last call, generate has ended
\* and no error fragment was yielded; when it is one of the first three
\* calls and every call before it failed with a retryable error, there was
\* one delay per failure and every call went to the first candidate.  The
\* delays are as many as the retryable failures in any case.
C18_SuccessEndsGenerate ==
    /\ \A i \in 1..Len(calls) :
          calls[i].end = "ok" =>
              /\ i = Len(calls)
              /\ gpc = "done"
              /\ ErrorFrags = {}
              /\ (i <= AttemptCap /\ \A j \in 1..(i - 1) : calls[j].end = "busy") =>
                     /\ Len(delays) = i - 1
                     /\ \A j \in 1..i : calls[j].model = 1
    /\ Len(delays) = Cardinality({j \in 1..Len(calls) : calls[j].end = "busy"})

\* the first candidate failed twice and succeeded on its third attempt
C18_Witness ==
    /\ gpc = "done"
    /\ Len(calls) = AttemptCap
    /\ calls[1].end = "busy" /\ calls[2].end = "busy" /\ calls[3].end = "ok"
    /\ Len(delays) = 2
    /\ Len(frags) > 0

\* C19 as stated: every delay is followed by the next attempt against the
\* same candidate.
C19_DelayThenSameCandidate ==
    [][DelayStep => Begins(modelIdx, attempt + 1)]_vars

\* C19 amended: a retryable failure of attempt a starts a delay of
\* BackoffBase * (a + 1) ms and no call; the delay is followed by attempt
\* a + 1 against the same candidate when a + 1 < AttemptCap, and after the
\* third attempt by the first attempt against the next candidate, or by the
\* terminal error fragment when the candidate is the last one.
C19_DelayThenRetryOrNext ==
    [][/\ (FailStep /\ calls'[Len(calls)].end = "busy") =>
              /\ gpc' = "delay"
              /\ delays' = Append(delays, BackoffBase * (attempt + 1))
              /\ Len(calls') = Len(calls)
       /\ DelayStep =>
              IF attempt + 1 < AttemptCap
              THEN Begins(modelIdx, attempt + 1)
              ELSE IF modelIdx < Len(MODEL_HIERARCHY)
              THEN Begins(modelIdx + 1, 0)
              ELSE EndsInError]_vars

\* a delay was followed by the second attempt against the first candidate
C19_Witness ==
    /\ gpc = "open"
    /\ Len(calls) = 2
    /\ calls[1].end = "busy"
    /\ calls[2].model = 1 /\ calls[2].attempt = 1
    /\ delays = <<BackoffBase>>

\* C20: a failure that is neither retryable nor a credential rejection
\* starts no delay and is followed at once by the first attempt against the
\* next candidate, or by the terminal error fragment after the last one; no
\* later call goes to the candidate that failed.
C20_FatalFallsThrough ==
    [][/\ (FailStep /\ calls'[Len(calls)].end = "other") =>
              /\ delays' = delays
              /\ IF modelIdx < Len(MODEL_HIERARCHY)
                 THEN Begins(modelIdx + 1, 0)
                 ELSE EndsInError
       /\ \A i \in 1..Len(calls) :
              (calls[i].end = "other" /\ Len(calls') > Len(calls)) =>
                  calls'[Len(calls')].model > calls[i].model]_vars

\* the first candidate failed with another error on its first attempt and
\* the second candidate is being called
C20_Witness ==
    /\ Len(calls) = 2
    /\ calls[1].end = "other" /\ calls[1].attempt = 0
    /\ calls[2].model = 2 /\ calls[2].attempt = 0
    /\ delays = << >>

\* Candidate m is exhausted: it was called, no call of it is pending or
\* completed cleanly, and it ended with a non-retryable failure or failed
\* AttemptCap times with a retryable one.
Exhausted(m) ==
    LET cs == {i \in 1..Len(calls) : calls[i].model = m}
    IN /\ cs # {}
       /\ \A i \in cs : calls[i].end \in {"busy", "denied", "other"}
       /\ \/ \E i \in cs : calls[i].end \in {"denied", "other"}
          \/ Cardinality({i \in cs : calls[i].end = "busy"}) = AttemptCap

\* C21: whenever an error fragment has been yielded, every candidate of
\* the hierarchy is exhausted.
C21_ErrorOnlyAfterExhaustion ==
    ErrorFrags # {} => \A m \in 1..Len(MODEL_HIERARCHY) : Exhausted(m)

\* the first candidate ended with a non-retryable failure, the second with
\* three retryable ones, and the error fragment was yielded
C21_Witness ==
    /\ ErrorFrags # {}
    /\ Len(calls) = AttemptCap + 1
    /\ calls[1].end = "other"
    /\ \A i \in 2..Len(calls) : calls[i].model = 2 /\ calls[i].end = "busy"

C23_NeverRaises ==
    /\ gpc \in {"idle", "open", "stream", "delay", "done"}
    /\ (gpc = "done" /\ \A i \in 1..Len(calls) : calls[i].end # "ok") =>
          (Len(frags) > 0 /\ frags[Len(frags)].kind = "error")

\* one call failed in the middle of its stream, after a fragment, another
\* when it was opened, and the generator ended normally
C23_Witness ==
    /\ gpc = "done"
    /\ \A i \in 1..Len(calls) : calls[i].end # "ok"
    /\ \E i \in 1..Len(frags) : frags[i].kind = "text"
    /\ \E n \in 1..Len(calls) : \A i \in 1..Len(frags) : frags[i].call # n
    /\ frags[Len(frags)].kind = "error"

\* C24: at most AttemptCap * |MODEL_HIERARCHY| = 6 calls are issued, and a
\* generator that was called ends, when the service answers every call and
\* ends or fails every stream.
C24_Terminates ==
    /\ [](Len(calls) <= AttemptCap * Len(MODEL_HIERARCHY))
    /\ (gpc # "idle") ~> (gpc = "done")

\* the generator ended after all six calls
C24_Witness ==
    /\ gpc = "done"
    /\ Len(calls) = AttemptCap * Len(MODEL_HIERARCHY)

----------------------------------------------------------------------------
\* The client binding, the credential and generateHealthQuote
\* (src/services/geminiService.ts, src/unnamed/part_000,
\* src/components/LiveConsultation.tsx)

\* A text is the sequence of its parts, over the parts T, at most MaxText long.
Texts(T) == UNION {[1..n -> T] : n \in 0..MaxText}

RECURSIVE TrimStart(_)
TrimStart(s) == IF s # << >> /\ Head(s) = " " THEN TrimStart(Tail(s)) ELSE s

RECURSIVE TrimEnd(_)
TrimEnd(s) ==
    IF s # << >> /\ s[Len(s)] = " " THEN TrimEnd(SubSeq(s, 1, Len(s) - 1)) ELSE s

\* String.prototype.trim
trim(s) == TrimEnd(TrimStart(s))

\* String.prototype.startsWith for a prefix that is one part
startsWith(s, p) == s # << >> /\ Head(s) = p

\* what the user may type into the key field: blanks, the prefix and other
\* characters
KeyParts == {" ", "AIza", "1"}

outsideClient == <<live, talk, frame, gen, prevTerminal, quote, codec, parsed>>

\* saveApiKey, src/unnamed/part_000 lines 71-81. usedKey restarts: it is
\* the key of the latest call since the credential was last saved.
saveApiKey(tempApiKey) ==
    /\ client' = IF startsWith(trim(tempApiKey), "AIza")
                 THEN [client EXCEPT !.storedKey = trim(tempApiKey),
                                     !.usedKey = NoKey]
                 ELSE client
    /\ UNCHANGED outsideClient

\* connectToSession, line 150 of LiveConsultation: the client of
\* ai.live.connect
LiveClient ==
    /\ client' = [client EXCEPT !.aiRef = liveGetAiClient,
                                !.usedKey = liveGetAiClient.key]
    /\ UNCHANGED outsideClient

\* cleanupSession, line 101 of LiveConsultation: the client is dropped
LiveCleanup ==
    /\ client.aiRef.bound
    /\ client' = [client EXCEPT !.aiRef = NoClient]
    /\ UNCHANGED outsideClient

\* src/services/geminiService.ts lines 183-189: five texts, none empty
LOCAL_QUOTES == << <<"Health">>, <<"Take">>, <<"A">>, <<"Your">>, <<"Wellness">> >>

\* a response of generateContent: text is undefined (hasText = FALSE) or a string
Responses == [hasText : BOOLEAN, text : Texts({" ", "a"})]

QuoteResult_NoFallback(r) == IF r.hasText THEN trim(r.text) ELSE << >>

\* line 261: response.text?.trim() || LOCAL_QUOTES[0]
QuoteResult(r) ==
    IF r.hasText /\ trim(r.text) # << >> THEN trim(r.text) ELSE LOCAL_QUOTES[1]

\* generateHealthQuote is called, lines 254-260: the client and the one
\* generateContent call
QuoteCall ==
    /\ quote.pc # "called"
    /\ quote' = [pc |-> "called", calls |-> 1, result |-> << >>]
    /\ client' = [client EXCEPT !.aiInstance = getAiClient,
                                !.usedKey = getAiClient.key]
    /\ UNCHANGED <<live, talk, frame, gen, prevTerminal, codec, parsed>>

\* the call resolves with r: line 261
QuoteReturn(r) ==
    /\ quote.pc = "called"
    /\ quote' = [quote EXCEPT !.pc = "returned", !.result = QuoteResult(r)]
    /\ UNCHANGED <<live, talk, frame, gen, prevTerminal, codec, parsed, client>>

\* the call rejects: the catch of lines 262-264, where i - 1 is
\* Math.floor(Math.random() * LOCAL_QUOTES.length)
QuoteFail(i) ==
    /\ quote.pc = "called"
    /\ quote' = [quote EXCEPT !.pc = "failed", !.result = LOCAL_QUOTES[i]]
    /\ UNCHANGED <<live, talk, frame, gen, prevTerminal, codec, parsed, client>>

\* The three users of the client binding and the key dialog; the service
\* answers every generation call with an empty stream.
NextClient ==
    \/ \E tempApiKey \in Texts(KeyParts) : saveApiKey(tempApiKey)
    \/ Invoke
    \/ OpenOk
    \/ StreamEnd
    \/ Return
    \/ QuoteCall
    \/ \E r \in Responses : QuoteReturn(r)
    \/ \E i \in 1..Len(LOCAL_QUOTES) : QuoteFail(i)
    \/ LiveClient
    \/ LiveCleanup

SpecClient == InitServices /\ [][NextClient]_vars

\* C25: generateHealthQuote never leaves by an exception, issues exactly
\* one generateContent call per invocation, returns a text that is not
\* empty, and returns a text of LOCAL_QUOTES whenever the call failed.
C25_QuoteOneCallAndFallback ==
    /\ quote.pc \in {"idle", "called", "returned", "failed"}
    /\ quote.pc # "idle" => quote.calls = 1
    /\ quote.pc \in {"returned", "failed"} => quote.result # << >>
    /\ quote.pc = "failed" =>
          \E i \in 1..Len(LOCAL_QUOTES) : quote.result = LOCAL_QUOTES[i]

\* a call failed and the third local quote was returned after one call
C25_Witness ==
    /\ quote.pc = "failed"
    /\ quote.calls = 1
    /\ quote.result = LOCAL_QUOTES[3]

\* the credential: the key the user saved, or the built-in key when none was saved
Credential == IF client.storedKey # NoKey THEN client.storedKey ELSE API_KEY

\* C26 as stated: the client of the latest generation, quote or
\* live-connection call since the credential last changed is bound to the
\* credential.
C26_CallsUseNewCredential ==
    client.usedKey # NoKey => client.usedKey = Credential

----------------------------------------------------------------------------
\* The outbound codec (processAudioInput, src/components/LiveConsultation.tsx
\* lines 48-66) and the receiver's decoder

\* A sample n stands for n / SampleDen. No product of a sample of the model
\* with a scale is within rounding distance of an integer unless it is one,
\* so the arithmetic of the floats is the arithmetic of the rationals here.
Samples == (0 - SampleDen)..SampleDen

Buffers == UNION {[1..n -> Samples] : n \in 0..MaxLen}

\* ctx.sampleRate: half the target rate, the target rate, twice the target rate
Rates == {AUDIO_SAMPLE_RATE \div 2, AUDIO_SAMPLE_RATE, 2 * AUDIO_SAMPLE_RATE}

Abs(x) == IF x < 0 THEN 0 - x ELSE x

\* ToInt16 of a typed-array store: the fraction is dropped and the integer
\* wraps; x is num / den
ToInt16(num, den) ==
    LET t == IF num < 0 THEN 0 - ((0 - num) \div den) ELSE num \div den
    IN ((t + 32768) % 65536) - 32768

\* line 56: the clamp
Clamp(n) == IF n < 0 - SampleDen THEN 0 - SampleDen
            ELSE IF n > SampleDen THEN SampleDen ELSE n

\* line 57: sample < 0 ? sample * 0x8000 : sample * 0x7FFF, stored in an Int16Array
Quantize(n) ==
    IF n < 0 THEN ToInt16(n * 32768, SampleDen) ELSE ToInt16(n * 32767, SampleDen)

Int16Bytes_BigEndian(q) ==
    LET u == (q + 65536) % 65536 IN <<u \div 256, u % 256>>

\* line 61: the bytes of an Int16Array element, low byte first
Int16Bytes(q) ==
    LET u == (q + 65536) % 65536 IN <<u % 256, u \div 256>>

RECURSIVE Flatten(_)
Flatten(ss) == IF ss = << >> THEN << >> ELSE Head(ss) \o Flatten(Tail(ss))

\* the padding character "="; the other characters of the base64 alphabet
\* are written as their values 0..63
Pad == 64

\* btoa, line 65
RECURSIVE btoa(_)
btoa(b) ==
    IF b = << >> THEN << >>
    ELSE IF Len(b) = 1
    THEN <<b[1] \div 4, (b[1] % 4) * 16, Pad, Pad>>
    ELSE IF Len(b) = 2
    THEN <<b[1] \div 4, (b[1] % 4) * 16 + b[2] \div 16, (b[2] % 16) * 4, Pad>>
    ELSE <<b[1] \div 4, (b[1] % 4) * 16 + b[2] \div 16,
           (b[2] % 16) * 4 + b[3] \div 64, b[3] % 64>>
         \o btoa(SubSeq(b, 4, Len(b)))

\* processAudioInput, lines 48-66
processAudioInput(inputData, inputSampleRate) ==
    LET targetLength == (Len(inputData) * AUDIO_SAMPLE_RATE) \div inputSampleRate
        inputIndex(i) == (i * inputSampleRate) \div AUDIO_SAMPLE_RATE
        int16Data == [i \in 1..targetLength |->
                         Quantize(Clamp(inputData[inputIndex(i - 1) + 1]))]
    IN btoa(Flatten([i \in 1..targetLength |-> Int16Bytes(int16Data[i])]))

\* decodeBase64 of utils/audioUtils: the bytes of a base64 text
RECURSIVE decodeBase64(_)
decodeBase64(t) ==
    IF t = << >> THEN << >>
    ELSE LET b1 == t[1] * 4 + t[2] \div 16
             b2 == (t[2] % 16) * 16 + t[3] \div 4
             b3 == (t[3] % 4) * 64 + t[4]
         IN (IF t[3] = Pad THEN <<b1>>
             ELSE IF t[4] = Pad THEN <<b1, b2>> ELSE <<b1, b2, b3>>)
            \o decodeBase64(SubSeq(t, 5, Len(t)))

\* The receiver reads the bytes as signed 16-bit little-endian samples; a
\* sample q stands for q / 32768.
decodeInbound(t) ==
    LET b == decodeBase64(t)
        u(i) == b[2 * i - 1] + 256 * b[2 * i]
    IN [i \in 1..(Len(b) \div 2) |-> IF u(i) >= 32768 THEN u(i) - 65536 ELSE u(i)]

\* a capture buffer at a sample rate; the rest of the program is left out
InitCodec ==
    /\ InitRest
    /\ prevTerminal = "none"
    /\ client = "none"
    /\ quote = "none"
    /\ parsed = "none"
    /\ codec \in [pc : {"captured"}, inputData : Buffers, inputRate : Rates,
                  encoded : {<< >>}, decoded : {<< >>}]

\* line 241
Encode ==
    /\ codec.pc = "captured"
    /\ codec' = [codec EXCEPT !.pc = "encoded",
                              !.encoded = processAudioInput(codec.inputData, codec.inputRate)]
    /\ UNCHANGED <<live, talk, frame, gen, prevTerminal, client, quote, parsed>>

\* the receiver decodes the frame
Decode ==
    /\ codec.pc = "encoded"
    /\ codec' = [codec EXCEPT !.pc = "decoded", !.decoded = decodeInbound(codec.encoded)]
    /\ UNCHANGED <<live, talk, frame, gen, prevTerminal, client, quote, parsed>>

NextCodec == Encode \/ Decode

SpecCodec == InitCodec /\ [][NextCodec]_vars

\* the round trip of a buffer captured at the target rate is over
RoundTrip == codec.pc = "decoded" /\ codec.inputRate = AUDIO_SAMPLE_RATE

\* the distance of sample i from its decoded value, in units of 1 / (32768 * SampleDen)
Distance(i) == Abs(codec.inputData[i] * 32768 - codec.decoded[i] * SampleDen)

\* C27 as stated: the round trip of N samples at the target rate yields N
\* samples, each within 1/32768 of the original.
C27_RoundTripWithinOneStep ==
    RoundTrip =>
        /\ Len(codec.decoded) = Len(codec.inputData)
        /\ \A i \in 1..Len(codec.inputData) : Distance(i) <= SampleDen

\* C27 amended: the round trip of N samples at the target rate yields N
\* samples, each within 2/32768 of the original.
C27_RoundTripWithinTwoSteps ==
    RoundTrip =>
        /\ Len(codec.decoded) = Len(codec.inputData)
        /\ \A i \in 1..Len(codec.inputData) : Distance(i) <= 2 * SampleDen

\* a full buffer made the round trip and one of its samples came back
\* further than 1/32768 from where it was
C27_Witness ==
    /\ RoundTrip
    /\ Len(codec.inputData) = MaxLen
    /\ \E i \in 1..Len(codec.inputData) : Distance(i) > SampleDen

----------------------------------------------------------------------------
\* the step just taken handled a capture buffer beyond line 227
CaptureStep == frame'.made

\* C28 as stated: while the user has the session muted, the frame made of
\* every capture buffer is silence, the reported input level is 0, and
\* the frame is still transmitted whenever a frame would be.
C28_MutedFramesAreSilence ==
    [][(isMuted /\ CaptureStep) =>
          /\ frame'.silent
          /\ frame'.level = 0
          /\ (SendAllowed => out' \in {"sent", "failed"})]_vars

\* C29: a payload that fails to decode schedules nothing and leaves the
\* session state, the retry counter, the scheduled buffers, the marker
\* and every resource of the session as they were, so that the message
\* after it is handled as if the payload had not come.
BadPayloadStep ==
    /\ lastMsg'.audio
    /\ ~lastMsg'.interrupted
    /\ CanPlay
    /\ sched' = NoSched

C29_BadPayloadDropped ==
    [][BadPayloadStep =>
          UNCHANGED <<ui, manual, retryCount, timers, refs, res, errored,
                      scheduledSourcesRef, nextStartTimeRef>>]_vars

\* a payload was dropped while the session was connected and a buffer was
\* scheduled
C29_Witness ==
    /\ lastMsg.audio
    /\ ~lastMsg.interrupted
    /\ sched = NoSched
    /\ CanPlay
    /\ isConnected
    /\ scheduledSourcesRef # {}

\* C30: a send that fails reports no connection failure and schedules no
\* reconnection, leaves the session state, the retry counter and the pump
\* as they were, and the next capture buffer may be sent.
C30_SendFailureSwallowed ==
    [][out' = "failed" =>
          /\ UNCHANGED <<ui, manual, retryCount, timers, harCalls, refs, res, errored>>
          /\ \E a \in Ids : pump'[a] /\ ctxRunning'[a]
          /\ ~manual' /\ activeSessionRef' # 0]_vars

\* a send failed in a connected session whose pump runs
C30_Witness ==
    /\ out = "failed"
    /\ isConnected
    /\ \E a \in Ids : pump[a] /\ ctxRunning[a] /\ activeSessionRef = a

----------------------------------------------------------------------------
\* C31: a buffer is scheduled at the later of the current time of the
\* clock and the marker, which is the end of the buffer scheduled before
\* it; playAudioChunk leaves the marker at the end of the new buffer (a
\* message that also carries an interruption resets it afterwards); the
\* buffer does not start in the past and overlaps no buffer scheduled on
\* the same clock.
C31_ScheduledAtMaxOfNowAndMarker ==
    [][ScheduleStep =>
          /\ sched'.start = Max(now, nextStartTimeRef)
          /\ sched'.start >= now
          /\ ~lastMsg'.interrupted =>
                /\ nextStartTimeRef' = sched'.start + sched'.dur
                /\ sched' \in scheduledSourcesRef'
          /\ \A s \in scheduledSourcesRef' :
                 (s # sched' /\ s.ctx = sched'.ctx) =>
                     (s.start + s.dur <= sched'.start \/ sched'.start + sched'.dur <= s.start)]_vars

\* a buffer was scheduled at the current time of the clock, after the end
\* of a buffer scheduled before it, and the marker is at its end
C31_Witness ==
    /\ sched.dur > 0
    /\ sched \in scheduledSourcesRef
    /\ sched.start = now
    /\ nextStartTimeRef = sched.start + sched.dur
    /\ \E s \in scheduledSourcesRef : s.ctx = sched.ctx /\ s.start + s.dur < sched.start

----------------------------------------------------------------------------
\* the calls that failed with a retryable error, in order
BusyCalls == SelectSeq(calls, LAMBDA c : c.end = "busy")

\* C32: the delay awaited after the retryable failure of attempt a is
\* 1500 * (a + 1) ms, which is 1500, 3000 or 4500 ms, and within one
\* candidate each delay is longer than the one before it.
C32_BackoffIncreasing ==
    /\ Len(delays) = Len(BusyCalls)
    /\ \A k \in 1..Len(delays) :
          /\ delays[k] = 1500 * (BusyCalls[k].attempt + 1)
          /\ delays[k] \in {1500, 3000, 4500}
    /\ \A k \in 1..(Len(delays) - 1) :
          BusyCalls[k + 1].model = BusyCalls[k].model => delays[k] < delays[k + 1]

\* the three delays of the first candidate were awaited, and the first
\* delay of the second candidate
C32_Witness ==
    /\ delays = <<1500, 3000, 4500, 1500>>
    /\ BusyCalls[3].model = 1
    /\ BusyCalls[4].model = 2

----------------------------------------------------------------------------
\* parseResponse (src/unnamed/part_000 lines 51-59)

\* the delimiter, one part of a text
Delim == "---SUGGESTIONS---"

\* A response text is the sequence of its parts: blanks, other characters,
\* pipes and delimiters.
RawParts == {" ", "a", "|", Delim}

RawTexts == UNION {[1..n -> RawParts] : n \in 0..MaxRaw}

\* String.prototype.split for a separator that is one part
RECURSIVE split(_, _)
split(s, sep) ==
    IF \A i \in 1..Len(s) : s[i] # sep
    THEN <<s>>
    ELSE LET i == CHOOSE k \in 1..Len(s) :
                      s[k] = sep /\ \A j \in 1..(k - 1) : s[j] # sep
         IN <<SubSeq(s, 1, i - 1)>> \o split(SubSeq(s, i + 1, Len(s)), sep)

\* .map(s => s.trim()), line 56
RECURSIVE MapTrim(_)
MapTrim(ss) == IF ss = << >> THEN << >> ELSE <<trim(Head(ss))>> \o MapTrim(Tail(ss))

parseResponse_KeepEmpty(rawText) ==
    LET parts == split(rawText, Delim)
    IN [content |-> trim(parts[1]),
        suggestions |-> IF Len(parts) >= 2 /\ parts[2] # << >>
                        THEN MapTrim(split(parts[2], "|"))
                        ELSE << >>]

\* lines 52-58; parts[1] of the source is parts[2] here, and the empty
\* string is falsy
parseResponse(rawText) ==
    LET parts == split(rawText, Delim)
    IN [content |-> trim(parts[1]),
        suggestions |-> IF Len(parts) >= 2 /\ parts[2] # << >>
                        THEN SelectSeq(MapTrim(split(parts[2], "|")),
                                       LAMBDA p : Len(p) > 0)
                        ELSE << >>]

\* a response text to parse; the rest of the program is left out
InitParse ==
    /\ InitRest
    /\ prevTerminal = "none"
    /\ client = "none"
    /\ quote = "none"
    /\ codec = "none"
    /\ parsed \in [pc : {"raw"}, rawText : RawTexts,
                   result : {[content |-> << >>, suggestions |-> << >>]}]

\* handleSendMessage, line 136
Parse ==
    /\ parsed.pc = "raw"
    /\ parsed' = [parsed EXCEPT !.pc = "done", !.result = parseResponse(parsed.rawText)]
    /\ UNCHANGED <<live, talk, frame, gen, prevTerminal, client, quote, codec>>

SpecParse == InitParse /\ [][Parse]_vars

\* the positions of the delimiters of the text that was parsed
DelimAt == {i \in 1..Len(parsed.rawText) : parsed.rawText[i] = Delim}

FirstDelim == CHOOSE i \in DelimAt : \A j \in DelimAt : i <= j

\* the text before the first delimiter, or the whole text
Before ==
    IF DelimAt = {} THEN parsed.rawText ELSE SubSeq(parsed.rawText, 1, FirstDelim - 1)

\* everything after the first delimiter
After == SubSeq(parsed.rawText, FirstDelim + 1, Len(parsed.rawText))

\* what lies between the first delimiter and the next one, or the end
Between ==
    LET later == {i \in DelimAt : i > FirstDelim}
        stop == IF later = {} THEN Len(parsed.rawText) + 1
                ELSE CHOOSE i \in later : \A j \in later : i <= j
    IN SubSeq(parsed.rawText, FirstDelim + 1, stop - 1)

\* the piece of seg that starts behind position c: it ends before the next
\* pipe or at the end, and is trimmed
PieceAt(seg, c) ==
    LET pipes == {i \in 1..Len(seg) : seg[i] = "|" /\ i > c}
        stop == IF pipes = {} THEN Len(seg) + 1
                ELSE CHOOSE i \in pipes : \A j \in pipes : i <= j
    IN trim(SubSeq(seg, c + 1, stop - 1))

\* the positions behind which a piece of seg starts that is not empty when trimmed
Kept(seg) ==
    {c \in {0} \cup {i \in 1..Len(seg) : seg[i] = "|"} : PieceAt(seg, c) # << >>}

\* sug lists the trimmed non-empty pipe-separated pieces of seg, in order
ListsPieces(sug, seg) ==
    /\ Len(sug) = Cardinality(Kept(seg))
    /\ \A c \in Kept(seg) :
          sug[Cardinality({x \in Kept(seg) : x < c}) + 1] = PieceAt(seg, c)

\* C33 as stated: the content is the trimmed text before the first
\* delimiter, or the whole trimmed text, and the suggestions are the pieces
\* of all that follows the first delimiter, none when there is no delimiter.
C33_ParsesContentAndSuggestions ==
    parsed.pc = "done" =>
        /\ parsed.result.content = trim(Before)
        /\ IF DelimAt = {} THEN parsed.result.suggestions = << >>
           ELSE ListsPieces(parsed.result.suggestions, After)

\* C33 amended: the suggestions are the pieces of what lies between the
\* first delimiter and the next delimiter or the end of the text.
C33_ParsesUpToNextDelimiter ==
    parsed.pc = "done" =>
        /\ parsed.result.content = trim(Before)
        /\ IF DelimAt = {} THEN parsed.result.suggestions = << >>
           ELSE ListsPieces(parsed.result.suggestions, Between)

\* a text with a delimiter and four pieces behind it was parsed into four
\* suggestions
C33_Witness ==
    /\ parsed.pc = "done"
    /\ parsed.rawText = <<Delim, "a", "|", "a", "|", "a", "|", "a">>
    /\ Len(parsed.result.suggestions) = 4

----------------------------------------------------------------------------
\* C38 as stated: isConnected holds only while a remote connection is open
\* (so not while a reconnection is pending nor in Failed), and never
\* together with isConnecting.
C38_ConnectedOnlyWhileOpen ==
    /\ isConnected => \E a \in Ids : conn[a] = "open"
    /\ ~(isConnected /\ isConnecting)

----------------------------------------------------------------------------
\* the step delivers the close event of the connection of a
CloseStep(a) == conn[a] # "none" /\ conn'[a] = "none"

\* C35 as stated: the close event of a connection whose loss was already
\* reported by an error event, or which the session closed itself, consumes
\* no retry and schedules no reconnection.
C35_OneLossOneRetry ==
    [][\A a \in Ids :
          (CloseStep(a) /\ (errored[a] \/ conn[a] = "closing")) =>
              (retryCount' = retryCount /\ timers' = timers /\ harCalls' = harCalls)]_vars

\* C36 as stated: a buffer is scheduled at the current time of its clock
\* unless it is queued behind a buffer that is still scheduled on the same
\* clock; so the first buffer of a re-established connection starts at the
\* current time of the new clock.
C36_FreshQueueAfterReconnect ==
    [][ScheduleStep =>
          \/ sched'.start = now
          \/ \E s \in scheduledSourcesRef :
                 s.ctx = sched'.ctx /\ s.start + s.dur = sched'.start]_vars

\* C37 as stated: the close event of a connection that was torn down
\* leaves the references, the resources and the indicators of the session
\* as they are, changes no retry counter, schedules no reconnection and
\* touches no other connection.  Checked over the sessions that lose no
\* connection (SpecPlay), where a connection is torn down by stop() or by
\* the unmount only.
C37_StaleEventsIgnored ==
    [][\A a \in Ids :
          (CloseStep(a) /\ conn[a] = "closing") =>
              /\ UNCHANGED <<ui, retryCount, timers, refs, ctxRunning, streamLive, pump>>
              /\ \A b \in Ids \ {a} : conn'[b] = conn[b]]_vars

\* C39 as stated: when the generator ends with a successful call, every
\* fragment it has yielded is a text chunk of that call: no fragment of a
\* call that failed in the middle of its stream is in the output.
C39_OnlySuccessfulAttemptText ==
    (gpc = "done" /\ Len(calls) > 0 /\ calls[Len(calls)].end = "ok") =>
        \A i \in 1..Len(frags) : frags[i].kind = "text" /\ frags[i].call = Len(calls)

----------------------------------------------------------------------------
\* The outcome of the attempt a is due: its getUserMedia is pending, its
\* connection is being opened or closed, or its error event was delivered
\* and its close event was not.
MicOutcome(a) == MicResolve(a) \/ MicReject(a)
ConnOutcome(a) ==
    /\ conn[a] \in {"opening", "closing"} \/ errored[a]
    /\ Opened(a) \/ ErrorEvent(a) \/ CloseEvent(a)

\* a reconnection timer fires or an outcome that is due arrives
Due == TimerFire \/ \E a \in Ids : MicOutcome(a) \/ ConnOutcome(a)

\* The lifecycle in which the timers and the outcomes that are due do not
\* wait forever.
SpecLive == Spec /\ WF_vars(Due)

\* the session is Active: connected, with an open connection
Active == isConnected /\ ~isConnecting /\ \E a \in Ids : conn[a] = "open"

\* A reconnection timer is pending and every attempt identifier of the
\* model is in use: the model follows the session no further.
OutOfIds == timers > 0 /\ ~manual /\ ~\E a \in Ids : Free(a)

\* C34: a reconnection timer that fires while the user has not stopped
\* makes a new connection attempt, the guard of line 114 does not discard
\* it; and when every timer fires and every outcome that is due arrives, a
\* session that is connecting or waiting for a reconnection eventually is
\* Active, Failed or Closed (as far as the attempt identifiers reach).
C34_RetryIsPerformedAndEnds ==
    /\ [][(timers' < timers /\ ~manual) => NewAttempt]_vars
    /\ (isConnecting \/ (timers > 0 /\ ~manual)) ~> (Active \/ Failed \/ Closed \/ OutOfIds)

\* a session that lost its connection is Active again, no timer pending
C34_Witness == reopened /\ Active /\ ~error /\ timers = 0 /\ retryCount = 0
====
